---- MODULE Spec2Model ----
(***************************************************************************)
(* A model of the real-time conversation orchestrator of aidialer:         *)
(*   - StreamService (services/stream_service.py): the playback sequencer  *)
(*   - AbstractLLMService / OpenAIService (services/llm_service.py): the   *)
(*     sentence segmenter and the recursive tool-call loop                 *)
(*   - DeepgramTTS (services/tts_service.py): the synthesis of a reply     *)
(*   - TranscriptionService (services/transcription_service.py): the       *)
(*     collection of final transcripts into 'transcription' events         *)
(* Texts are sequences of one-character strings, so that splitting and     *)
(* stripping are computed, not assumed.                                    *)
(***************************************************************************)
EXTENDS Integers, Sequences, FiniteSets, TLC

\* ------------------------------------------------------------------ bounds
MaxCalls == 4
MaxIndex == 2
MaxResets == 1
MaxEvents == 6
MaxSegOps == 3
MaxInFlight == 2
MaxConcOps == 3
MaxPipeEvents == 4
MaxAsrEvents == 3

\* ---------------------------------------------------------------- helpers
\* Python's None, for an index that is not a number.
None == -1

\* The dict entry that has no "name" key.
NoName == ""

Last(s) == s[Len(s)]
Front(s) == SubSeq(s, 1, Len(s) - 1)
EmptyMap == <<>>

\* ------------------------------------------------------------- variables
VARIABLES
  \* StreamService
  expected_audio_index, \* self.expected_audio_index
  audio_buffer,         \* self.audio_buffer: index -> audio
  calls,                \* buffer() invocations suspended at an await of send_audio
  ws,                   \* frames handed to the websocket, in order
  audiosent,            \* labels carried by the 'audiosent' events, in order
  uuid,                 \* number of labels drawn from uuid4 so far
  stream_sid,           \* self.stream_sid
  \* history of the sequencer's use (not program state)
  callLog,              \* every buffer() call: index, audio, expected index at entry
  delivered,            \* every media frame: the audio, its index, the call that sent it
  resets,               \* number of StreamService.reset() calls so far
  bufferRaised,         \* the buffer() calls ended by an exception
  lastOp,               \* the operation called last on the sequencer
  \* AbstractLLMService / OpenAIService
  user_context,            \* self.user_context: the history
  initial_message,         \* self.initial_message
  partial_response_index,  \* self.partial_response_index
  sentence_buffer,         \* self.sentence_buffer
  active,                  \* completion() invocations that have not returned
  llmreply,                \* the 'llmreply' events emitted, in order
  requests,                \* number of calls of chat.completions.create
  call_ended,              \* the telephony call was ended by end_call
  \* history of the engine's use (not program state)
  started,                 \* every completion() call and its arguments
  toolLog,                 \* every tool action that returned
  failLog,                 \* every completion() ended by an exception
  terminated,              \* what had been emitted and started when end_call returned
  used,                    \* number of input events so far (bounded by MaxEvents)
  llm_resets,              \* number of reset() calls on the engine so far
  segLog,                  \* the feeds and flushes of the segmenter alone
  toolTrace,               \* every tool call signalled, and every tool action called
  \* DeepgramTTS
  tts_lost,                \* the 'llmreply' events whose synthesis gave no audio
  \* TranscriptionService
  final_result,            \* self.final_result
  speech_final,            \* self.speech_final
  handlers,                \* handler invocations suspended at an await of emit
  emitted,                 \* the 'transcription' and 'utterance' events, in order
  \* history of the transcription gateway (not program state)
  asrLog,                  \* every event of the gateway, in arrival order
  finals                   \* the non-blank final transcripts, in arrival order

streamVars == <<expected_audio_index, audio_buffer, calls, ws, audiosent, uuid,
                stream_sid, callLog, delivered, resets, lastOp, bufferRaised>>

llmVars == <<user_context, initial_message, partial_response_index,
             sentence_buffer, active, llmreply, requests, call_ended, started,
             toolLog, failLog, terminated, used, llm_resets, segLog, toolTrace>>

ttsVars == <<tts_lost>>

asrVars == <<final_result, speech_final, handlers, emitted, asrLog, finals>>

vars == <<streamVars, llmVars, ttsVars, asrVars>>

\* ======================================================= StreamService
Indices == 0..MaxIndex

\* The stream identifiers of the 'start' message.
StreamSids == {"MZ1"}

\* __init__ (lines 25-29)
StreamInit ==
  /\ stream_sid = ""
  /\ expected_audio_index = 0
  /\ audio_buffer = EmptyMap
  /\ calls = {}
  /\ ws = <<>>
  /\ audiosent = <<>>
  /\ uuid = 0
  /\ callLog = <<>>
  /\ delivered = <<>>
  /\ resets = 0
  /\ lastOp = "init"
  /\ bufferRaised = <<>>

\* The first statement of send_audio: the media frame is handed to the
\* websocket, and the coroutine is suspended at that await (line 77).
MediaFrame(audio) ==
  [streamSid |-> stream_sid, event |-> "media", payload |-> audio]
MarkFrameMutant(label) ==
  [streamSid |-> "", event |-> "mark", name |-> label]
MarkFrame(label) ==
  [streamSid |-> stream_sid, event |-> "mark", name |-> label]

\* set_stream_sid (lines 31-38)
set_stream_sid(sid) ==
  /\ stream_sid' = sid
  /\ UNCHANGED <<expected_audio_index, audio_buffer, calls, ws, audiosent, uuid,
                 callLog, delivered, resets, lastOp, bufferRaised>>

\* line 51: the fragment is an announcement, outside the sequence.
IsNullMutant(index) == FALSE
IsNull(index) == index = None

\* line 53: the fragment is the one due now.
DueMutant(index) == index <= expected_audio_index
Due(index) == index = expected_audio_index

\* line 57: the loop condition of the drain.
DrainableMutant == FALSE
Drainable == expected_audio_index \in DOMAIN audio_buffer

\* line 63: self.audio_buffer[index] = audio
Store(buf, index, audio) ==
  [k \in DOMAIN buf \cup {index} |-> IF k = index THEN audio ELSE buf[k]]

\* line 60: del self.audio_buffer[self.expected_audio_index]
DeleteMutant(buf, index) == buf
DeleteAll(buf, index) == EmptyMap
Delete(buf, index) == [k \in DOMAIN buf \ {index} |-> buf[k]]

\* lines 55 and 61: self.expected_audio_index += 1
AdvanceMutant(i) == i + 2
Advance(i) == i + 1

\* buffer(index, audio), up to its first await (lines 51-54, 62-63).
\* Every call carries an audio of its own, by which the call is named.
buffer(index, audio) ==
  LET entry == [index |-> index, audio |-> audio,
                expected |-> expected_audio_index, session |-> resets,
                prev |-> lastOp, inflight |-> Cardinality(calls),
                pending |-> audio_buffer]
      send(branch) ==
        /\ calls' = calls \cup {[id |-> audio, index |-> index, branch |-> branch,
                                 cur |-> audio, pc |-> "media", label |-> None,
                                 d |-> Len(delivered) + 1]}
        /\ ws' = Append(ws, MediaFrame(audio))
        /\ delivered' = Append(delivered, [audio |-> audio, index |-> index,
                                            by |-> audio, session |-> resets,
                                            frame |-> Len(ws) + 1, label |-> None])
        /\ UNCHANGED audio_buffer
  IN /\ Len(callLog) < MaxCalls
     /\ callLog' = Append(callLog, entry)
     /\ lastOp' = "buffer"
     /\ IF IsNull(index) THEN send("null")
        ELSE IF Due(index) THEN send("head")
        ELSE /\ audio_buffer' = Store(audio_buffer, index, audio)
             /\ UNCHANGED <<calls, ws, delivered>>
     /\ UNCHANGED <<expected_audio_index, audiosent, uuid, stream_sid, resets,
                    bufferRaised>>

\* send_audio resumes after the media frame: draws the label and sends the
\* mark frame (lines 85-93).
send_mark(c) ==
  /\ c \in calls /\ c.pc = "media"
  /\ uuid' = uuid + 1
  /\ ws' = Append(ws, MarkFrame(uuid + 1))
  /\ calls' = (calls \ {c}) \cup {[c EXCEPT !.pc = "mark", !.label = uuid + 1]}
  /\ delivered' = [delivered EXCEPT ![c.d].label = uuid + 1]
  /\ UNCHANGED <<expected_audio_index, audio_buffer, audiosent, stream_sid,
                 callLog, resets, lastOp, bufferRaised>>

\* send_audio resumes after the mark frame: emits 'audiosent' (line 95).
emit_audiosent(c) ==
  /\ c \in calls /\ c.pc = "mark"
  /\ audiosent' = Append(audiosent, c.label)
  /\ calls' = (calls \ {c}) \cup {[c EXCEPT !.pc = "emit"]}
  /\ UNCHANGED <<expected_audio_index, audio_buffer, ws, uuid, stream_sid,
                 callLog, delivered, resets, lastOp, bufferRaised>>

\* send_audio returns into buffer (lines 52, 55-61): the statements up to the
\* next await, or to the end of the call. In the drain, line 60 deletes the
\* key that is expected now: when it is no longer in the buffer the del
\* raises KeyError, which ends the call.
buffer_resume(c) ==
  /\ c \in calls /\ c.pc = "emit"
  /\ IF c.branch = "null"
     THEN /\ calls' = calls \ {c}
          /\ UNCHANGED <<expected_audio_index, audio_buffer, ws, delivered,
                         bufferRaised>>
     ELSE IF c.branch = "drain" /\ expected_audio_index \notin DOMAIN audio_buffer
     THEN /\ calls' = calls \ {c}
          /\ bufferRaised' = Append(bufferRaised, c.id)
          /\ UNCHANGED <<expected_audio_index, audio_buffer, ws, delivered>>
     ELSE LET buf == IF c.branch = "drain"
                     THEN Delete(audio_buffer, expected_audio_index)
                     ELSE audio_buffer
              exp == Advance(expected_audio_index)
          IN /\ expected_audio_index' = exp
             /\ audio_buffer' = buf
             /\ UNCHANGED bufferRaised
             /\ IF Drainable'
                THEN /\ calls' = (calls \ {c}) \cup
                          {[c EXCEPT !.branch = "drain", !.cur = buf[exp],
                                     !.pc = "media", !.label = None,
                                     !.d = Len(delivered) + 1]}
                     /\ ws' = Append(ws, MediaFrame(buf[exp]))
                     /\ delivered' = Append(delivered,
                          [audio |-> buf[exp], index |-> exp, by |-> c.id,
                           session |-> resets, frame |-> Len(ws) + 1,
                           label |-> None])
                ELSE /\ calls' = calls \ {c}
                     /\ UNCHANGED <<ws, delivered>>
  /\ UNCHANGED <<audiosent, uuid, stream_sid, callLog, resets, lastOp>>

\* reset() (lines 65-68)
StreamService_reset_keeps_buffer ==
  /\ resets < MaxResets
  /\ expected_audio_index' = 0
  /\ resets' = resets + 1
  /\ lastOp' = "reset"
  /\ UNCHANGED <<audio_buffer, calls, ws, audiosent, uuid, stream_sid, callLog,
                 delivered, bufferRaised>>
StreamService_reset ==
  /\ resets < MaxResets
  /\ expected_audio_index' = 0
  /\ audio_buffer' = EmptyMap
  /\ resets' = resets + 1
  /\ lastOp' = "reset"
  /\ UNCHANGED <<calls, ws, audiosent, uuid, stream_sid, callLog, delivered,
                 bufferRaised>>

\* ================================================================ texts
\* A text is a sequence of one-character strings.
Hello == <<"H", "e", "l", "l", "o">>
Terminators == {".", "!", "?"}
Whitespace == {" "}

\* re.split(r'([.!?])', text) (line 147): the runs between terminators and
\* the terminators, alternating; 2n+1 items for n terminators.
RECURSIVE re_split(_)
re_split(text) ==
  IF \A k \in 1..Len(text) : text[k] \notin Terminators
  THEN <<text>>
  ELSE LET p == CHOOSE k \in 1..Len(text) :
                  /\ text[k] \in Terminators
                  /\ \A j \in 1..(k - 1) : text[j] \notin Terminators
       IN <<SubSeq(text, 1, p - 1), <<text[p]>>>>
            \o re_split(SubSeq(text, p + 1, Len(text)))

\* ''.join(sentences[i:i+2]) for i in range(0, len(sentences), 2) (line 149)
split_unpaired(text) == re_split(text)
split_into_sentences(text) ==
  LET parts == re_split(text)
      n == (Len(parts) + 1) \div 2
  IN [i \in 1..n |-> IF 2 * i <= Len(parts)
                     THEN parts[2 * i - 1] \o parts[2 * i]
                     ELSE parts[2 * i - 1]]

\* str.strip()
RECURSIVE LStrip(_)
LStrip(text) ==
  IF text # <<>> /\ Head(text) \in Whitespace THEN LStrip(Tail(text)) ELSE text
RECURSIVE RStrip(_)
RStrip(text) ==
  IF text # <<>> /\ Last(text) \in Whitespace THEN RStrip(Front(text)) ELSE text
StripMutant(text) == text
Strip(text) == RStrip(LStrip(text))

\* ==================================================== the engine's inputs
Greetings == {<<"g">>, <<"G">>}
Transcripts == {<<"h", "i">>}
\* text deltas of the model stream: no terminator; one sentence; two
\* sentences and a trailing blank
Deltas == {<<"a">>, <<"b", ".">>, <<"c", "?", " ", "d", "!", " ">>}

\* self.available_functions (lines 41-45): the modules of functions/
ToolNames == {"end_call", "transfer_call"}
\* the names a stream may carry: the tools, and a name that is not one
StreamNames == ToolNames \cup {"lookup"}

\* The fragments of an argument payload (tool_call.function.arguments):
\* nothing, a fragment that is not JSON, and a JSON object.
JsonA1 == <<"{", "\"", "a", "\"", ":", "1", "}">>
ArgFragments == {<<>>, <<"{">>, JsonA1}

\* A dict is the set of its <<key, value>> pairs.
EmptyArgs == {}
JSONDecodeError == {<<"error", "JSONDecodeError">>}

\* json.loads (line 94) on the texts above: an object with no member, or
\* with one member whose key is a letter and whose value is a digit; any
\* other text raises JSONDecodeError.
IsJsonObject(text) ==
  \/ text = <<"{", "}">>
  \/ /\ Len(text) = Len(JsonA1)
     /\ text[1] = "{" /\ text[2] = "\"" /\ text[3] \in {"a", "b"}
     /\ text[4] = "\"" /\ text[5] = ":" /\ text[6] \in {"0", "1"}
     /\ text[7] = "}"
json_loads(text) ==
  IF ~IsJsonObject(text) THEN JSONDecodeError
  ELSE IF Len(text) = Len(JsonA1) THEN {<<text[3], text[6]>>}
  ELSE EmptyArgs

\* validate_function_args (lines 83-97)
validate_function_args_unguarded(args) == json_loads(args)
validate_function_args(args) ==
  IF IsJsonObject(args) THEN json_loads(args) ELSE EmptyArgs
\* tool['function']['say'] of the manifest (lines 236-237)
Say(name) == IF name = "end_call" THEN <<"B", "y", "e">> ELSE <<"H", "o", "l", "d">>
\* what the tool actions return (end_call.py lines 30, 38; transfer_call.py
\* lines 39, 42)
ToolResults(name) ==
  IF name = "end_call" THEN {<<"e", "n", "d", "e", "d">>}
  ELSE {<<"m", "o", "v", "e", "d">>, <<"e", "r", "r">>}

\* ============================================== AbstractLLMService state
Entry(role, content, name) == [role |-> role, content |-> content, name |-> name]

\* lines 36-39 and 57-60
InitialContext(greeting) ==
  <<Entry("user", Hello, NoName), Entry("assistant", greeting, NoName)>>

\* __init__ (lines 25-47)
LLMInit ==
  /\ initial_message = <<"g">>
  /\ user_context = InitialContext(initial_message)
  /\ partial_response_index = 0
  /\ sentence_buffer = <<>>
  /\ active = {}
  /\ llmreply = <<>>
  /\ requests = 0
  /\ call_ended = FALSE
  /\ started = <<>>
  /\ toolLog = <<>>
  /\ failLog = <<>>
  /\ terminated = <<>>
  /\ used = 0
  /\ llm_resets = 0
  /\ segLog = <<>>
  /\ toolTrace = <<>>

\* An 'llmreply' event (lines 165-168, 239-242, 255-258); session, by and
\* src record the engine reset count, the invocation, and the text that the
\* invocation's own stream had delivered when the event was emitted.
Reply(index, text, by, src) ==
  [partialResponseIndex |-> index, partialResponse |-> text,
   session |-> llm_resets, by |-> by, src |-> src]

\* set_call_context (lines 49-63)
set_call_context_stale(greeting) ==
  /\ used < MaxEvents
  /\ active = {}
  /\ user_context' = InitialContext(initial_message)
  /\ initial_message' = greeting
  /\ used' = used + 1
  /\ UNCHANGED <<partial_response_index, sentence_buffer, active, llmreply,
                 requests, call_ended, started, toolLog, failLog, terminated,
                 llm_resets, segLog, toolTrace>>
set_call_context(greeting) ==
  /\ used < MaxEvents
  /\ active = {}
  /\ user_context' = InitialContext(greeting)
  /\ initial_message' = greeting
  /\ used' = used + 1
  /\ UNCHANGED <<partial_response_index, sentence_buffer, active, llmreply,
                 requests, call_ended, started, toolLog, failLog, terminated,
                 llm_resets, segLog, toolTrace>>

\* reset (lines 79-81)
LLM_reset ==
  /\ used < MaxEvents
  /\ partial_response_index' = 0
  /\ used' = used + 1
  /\ llm_resets' = llm_resets + 1
  /\ UNCHANGED <<user_context, initial_message, sentence_buffer, active,
                 llmreply, requests, call_ended, started, toolLog, failLog,
                 terminated, segLog, toolTrace>>

\* ================================================= OpenAIService.completion
\* A completion() invocation that has not returned. pc is the await it is
\* suspended at:
\*   "request"   chat.completions.create (line 205)
\*   "stream"    the next chunk of the stream (line 216)
\*   "emit"      the emit of a complete sentence (line 165)
\*   "tool_say"  the emit of the tool's announcement (line 239)
\*   "tool_exec" the tool action (line 246)
\*   "recurse"   the recursive completion() (line 251)
\*   "flush"     the emit of the remaining text (line 255)
\* done: the chunk with a finish_reason, the last of a stream, was received.
\* received: the text deltas the stream has delivered, in arrival order (not
\* program state).
NewFrame(id, parent) ==
  [id |-> id, parent |-> parent, pc |-> "request", complete_response |-> <<>>,
   function_name |-> "", function_args |-> <<>>, pending |-> <<>>,
   last |-> <<>>, finish |-> "none", done |-> FALSE, received |-> <<>>]

\* line 228: complete_response += content
AccumulateMutant(response, content) == content
Accumulate(response, content) == response \o content

With(act, f, g) == (act \ {f}) \cup {g}

\* line 251: the caller is suspended until the recursive call returns.
CallerPcMutant == "stream"
CallerPc == "recurse"

\* completion() returns (normally, or from its except clause): the caller
\* awaiting it, if any, goes on to the next chunk of its own stream.
Returned(act, f) ==
  {IF g.id = f.parent /\ g.pc = "recurse" THEN [g EXCEPT !.pc = "stream"] ELSE g :
     g \in act \ {f}}

\* lines 263-264: an exception raised in the invocation is caught and logged
\* there; the invocation returns.
RaisedPropagates(act, f) == {g \in act : g.id \notin {f.id, f.parent}}
Raised(act, f) == Returned(act, f)

\* line 250
IsTerminatingMutant(name) == FALSE
IsTerminating(name) == name = "end_call"

\* The driver of the engine is not part of these sources: a transcript starts
\* a completion() only when none is active (one logical thread per call).
CanStart == active = {}

\* A 'transcription' event: completion(text, interaction_count) up to its
\* first await (lines 202-205).
start_turn(text) ==
  LET id == Len(started) + 1
  IN /\ CanStart
     /\ ~call_ended
     /\ used < MaxEvents
     /\ used' = used + 1
     /\ user_context' = Append(user_context, Entry("user", text, "user"))
     /\ requests' = requests + 1
     /\ started' = Append(started, [id |-> id, parent |-> 0, text |-> text,
                                    role |-> "user", name |-> "user", cause |-> 0,
                                    session |-> llm_resets,
                                    at |-> Len(user_context) + 1])
     /\ active' = active \cup {NewFrame(id, 0)}
     /\ UNCHANGED <<initial_message, partial_response_index, sentence_buffer,
                    llmreply, call_ended, toolLog, failLog, terminated,
                    llm_resets, segLog, toolTrace>>

\* The request returns the stream (lines 205-214).
open_stream(f) ==
  /\ f.pc = "request"
  /\ active' = With(active, f, [f EXCEPT !.pc = "stream"])
  /\ UNCHANGED <<user_context, initial_message, partial_response_index,
                 sentence_buffer, llmreply, requests, call_ended, started,
                 toolLog, failLog, terminated, used, llm_resets, segLog, toolTrace>>

\* line 233: the name is a key of self.available_functions.
KnownMutant(name) == TRUE
Known(name) == name \in ToolNames

\* line 240: the announcement carries no index.
SayIndexMutant == partial_response_index
SayIndex == None

\* The stream signals a tool call (line 231): recorded for the claims.
Signal(f) ==
  [ev |-> "signal", by |-> f.id, name |-> f.function_name,
   raw |-> f.function_args, args |-> EmptyArgs, replies |-> Len(llmreply)]
Signalled(f, finish) ==
  IF finish = "tool_calls" THEN Append(toolTrace, Signal(f)) ELSE toolTrace

\* What follows emit_complete_sentences for one chunk (lines 231-242): with
\* finish_reason "tool_calls" the tool is looked up and announced; an unknown
\* name raises KeyError at line 233.
AfterFeed(f, finish, replies) ==
  IF finish = "tool_calls"
  THEN IF Known(f.function_name)
       THEN [llmreply |-> Append(replies, Reply(SayIndex, Say(f.function_name), f.id, f.received)),
             frame |-> [f EXCEPT !.pc = "tool_say"], error |-> FALSE]
       ELSE [llmreply |-> replies, frame |-> f, error |-> TRUE]
  ELSE [llmreply |-> replies, frame |-> [f EXCEPT !.pc = "stream"], error |-> FALSE]

Failure(f, kind) ==
  [id |-> f.id, parent |-> f.parent, kind |-> kind]

\* A chunk without tool_calls (lines 227-229, then 231): its content is fed
\* to the segmenter, up to the first emit.
chunk(f, content, finish) ==
  LET buf == sentence_buffer \o content
      sentences == split_into_sentences(buf)
      complete == Front(sentences)
      f1 == [f EXCEPT !.complete_response = Accumulate(@, content),
                      !.received = @ \o content,
                      !.done = (finish # "none")]
      o == AfterFeed(f1, finish, llmreply)
  IN /\ f.pc = "stream"
     /\ ~f.done
     /\ IF complete # <<>>
        THEN /\ sentence_buffer' = buf
             /\ llmreply' = Append(llmreply,
                  Reply(partial_response_index, Strip(complete[1]), f.id,
                        f1.received))
             /\ active' = With(active, f,
                  [f1 EXCEPT !.pc = "emit", !.pending = Tail(complete),
                             !.last = Last(sentences), !.finish = finish])
             /\ UNCHANGED <<failLog, toolTrace>>
        ELSE /\ sentence_buffer' = Last(sentences)
             /\ toolTrace' = Signalled(f, finish)
             /\ llmreply' = o.llmreply
             /\ active' = IF o.error THEN Raised(active, f)
                          ELSE With(active, f, o.frame)
             /\ failLog' = IF o.error THEN Append(failLog, Failure(f, "KeyError"))
                           ELSE failLog
     /\ UNCHANGED <<user_context, initial_message, partial_response_index,
                    requests, call_ended, started, toolLog, terminated,
                    llm_resets, segLog>>

\* A chunk carrying text (finish_reason None).
text_chunk(f, content) ==
  /\ used < MaxEvents
  /\ chunk(f, content, "none")
  /\ used' = used + 1

\* A chunk carrying a tool call with its name (lines 221-226): the name is
\* kept and the fragment of the arguments is added to those before it.
tool_name_chunk(f, name, args) ==
  /\ f.pc = "stream"
  /\ ~f.done
  /\ used < MaxEvents
  /\ active' = With(active, f, [f EXCEPT !.function_name = name,
                                         !.function_args = @ \o args])
  /\ used' = used + 1
  /\ UNCHANGED <<user_context, initial_message, partial_response_index,
                 sentence_buffer, llmreply, requests, call_ended, started,
                 toolLog, failLog, terminated, llm_resets, segLog, toolTrace>>

\* A chunk carrying a tool call without a name, as the chunks after the
\* first of a streamed tool call do: the test of line 223 fails, and its
\* fragment of the arguments is not added.
tool_args_chunk(f, args) ==
  /\ f.pc = "stream"
  /\ ~f.done
  /\ used < MaxEvents
  /\ used' = used + 1
  /\ UNCHANGED <<user_context, initial_message, partial_response_index,
                 sentence_buffer, active, llmreply, requests, call_ended,
                 started, toolLog, failLog, terminated, llm_resets, segLog,
                 toolTrace>>

\* The chunk with finish_reason "tool_calls", the last chunk of its stream:
\* no content, no tool_calls.
finish_chunk(f) ==
  /\ used < MaxEvents
  /\ chunk(f, <<>>, "tool_calls")
  /\ used' = used + 1

\* The emit of a sentence returns (lines 169-172, then 231).
emit_resume(f) ==
  LET index == partial_response_index + 1
      o == AfterFeed([f EXCEPT !.last = <<>>, !.finish = "none"], f.finish, llmreply)
  IN /\ f.pc = "emit"
     /\ partial_response_index' = index
     /\ IF f.pending # <<>>
        THEN /\ llmreply' = Append(llmreply,
                  Reply(index, Strip(Head(f.pending)), f.id, f.received))
             /\ active' = With(active, f, [f EXCEPT !.pending = Tail(@)])
             /\ UNCHANGED <<sentence_buffer, failLog, toolTrace>>
        ELSE /\ sentence_buffer' = f.last
             /\ toolTrace' = Signalled(f, f.finish)
             /\ llmreply' = o.llmreply
             /\ active' = IF o.error THEN Raised(active, f)
                          ELSE With(active, f, o.frame)
             /\ failLog' = IF o.error THEN Append(failLog, Failure(f, "KeyError"))
                           ELSE failLog
     /\ UNCHANGED <<user_context, initial_message, requests, call_ended, started,
                    toolLog, terminated, used, llm_resets, segLog>>

\* The emit of the announcement returns: the announcement is appended to the
\* history and the tool action is called with the arguments parsed at
\* line 234 (lines 244-246).
tool_say_resume(f) ==
  /\ f.pc = "tool_say"
  /\ user_context' = Append(user_context,
       Entry("assistant", Say(f.function_name), NoName))
  /\ active' = With(active, f, [f EXCEPT !.pc = "tool_exec"])
  /\ toolTrace' = Append(toolTrace,
       [ev |-> "call", by |-> f.id, name |-> f.function_name,
        raw |-> f.function_args, args |-> validate_function_args(f.function_args),
        replies |-> Len(llmreply)])
  /\ UNCHANGED <<initial_message, partial_response_index, sentence_buffer,
                 llmreply, requests, call_ended, started, toolLog, failLog,
                 terminated, used, llm_resets, segLog>>

\* line 251, with line 202: the recursive call appends the tool's text with
\* role 'function' and the tool's name.
FunctionEntryDefaults(response, name) == Entry("user", response, "user")
FunctionEntry(response, name) == Entry("function", response, name)

\* The tool action returns its text (lines 246-251); unless the tool is
\* end_call, completion() is called with it, up to its first await.
tool_return(f, response) ==
  LET id == Len(started) + 1
      name == f.function_name
  IN /\ f.pc = "tool_exec"
     /\ response \in ToolResults(name)
     /\ toolLog' = Append(toolLog, [name |-> name, response |-> response, by |-> f.id])
     /\ call_ended' = (call_ended \/ name = "end_call")
     /\ terminated' = IF name = "end_call" /\ terminated = <<>>
                      THEN <<[replies |-> Len(llmreply), started |-> Len(started)]>>
                      ELSE terminated
     /\ IF IsTerminating(name)
        THEN /\ active' = With(active, f, [f EXCEPT !.pc = "stream"])
             /\ UNCHANGED <<user_context, requests, started>>
        ELSE /\ user_context' = Append(user_context, FunctionEntry(response, name))
             /\ requests' = requests + 1
             /\ started' = Append(started,
                  [id |-> id, parent |-> f.id, text |-> response,
                   role |-> "function", name |-> name, cause |-> Len(toolLog) + 1,
                   session |-> llm_resets, at |-> Len(user_context) + 1])
             /\ active' = With(active, f, [f EXCEPT !.pc = CallerPc])
                            \cup {NewFrame(id, f.id)}
     /\ UNCHANGED <<initial_message, partial_response_index, sentence_buffer,
                    llmreply, failLog, used, llm_resets, segLog, toolTrace>>

\* The tool action raises (end_call.py lines 20-36 call Twilio unguarded).
tool_raise(f) ==
  /\ f.pc = "tool_exec"
  /\ used < MaxEvents
  /\ active' = Raised(active, f)
  /\ failLog' = Append(failLog, Failure(f, "tool"))
  /\ used' = used + 1
  /\ UNCHANGED <<user_context, initial_message, partial_response_index,
                 sentence_buffer, llmreply, requests, call_ended, started,
                 toolLog, terminated, llm_resets, segLog, toolTrace>>

\* The stream is exhausted (lines 253-261).
stream_end(f) ==
  /\ f.pc = "stream"
  /\ IF Strip(sentence_buffer) # <<>>
     THEN /\ llmreply' = Append(llmreply,
               Reply(partial_response_index, Strip(sentence_buffer), f.id,
                     f.received))
          /\ active' = With(active, f, [f EXCEPT !.pc = "flush"])
          /\ UNCHANGED user_context
     ELSE /\ user_context' = Append(user_context,
               Entry("assistant", f.complete_response, NoName))
          /\ active' = Returned(active, f)
          /\ UNCHANGED llmreply
  /\ UNCHANGED <<initial_message, partial_response_index, sentence_buffer,
                 requests, call_ended, started, toolLog, failLog, terminated,
                 used, llm_resets, segLog, toolTrace>>

\* The emit of the remaining text returns (lines 259-261).
flush_resume(f) ==
  /\ f.pc = "flush"
  /\ sentence_buffer' = <<>>
  /\ user_context' = Append(user_context,
       Entry("assistant", f.complete_response, NoName))
  /\ active' = Returned(active, f)
  /\ UNCHANGED <<initial_message, partial_response_index, llmreply, requests,
                 call_ended, started, toolLog, failLog, terminated, used, llm_resets, segLog, toolTrace>>

\* The request, or the stream, raises (lines 205, 216; caught at 263).
stream_fail(f) ==
  /\ f.pc \in {"request", "stream"}
  /\ used < MaxEvents
  /\ active' = Raised(active, f)
  /\ failLog' = Append(failLog, Failure(f, "stream"))
  /\ used' = used + 1
  /\ UNCHANGED <<user_context, initial_message, partial_response_index,
                 sentence_buffer, llmreply, requests, call_ended, started,
                 toolLog, terminated, llm_resets, segLog, toolTrace>>

\* ============================================================ DeepgramTTS
\* generate(llm_reply, interaction_count) is called with every 'llmreply'
\* event; a reply without text is dropped (lines 146-147).
Requested(k) == llmreply[k].partialResponse # <<>>

\* The audio synthesized from a reply is named by the reply's ordinal.
Spoken == {callLog[c].audio : c \in 1..Len(callLog)}

\* The handlers of 'llmreply' and 'speech' are not part of these sources:
\* every reply is handed to generate() when it is emitted, the requests
\* running concurrently, and every 'speech' event is handed to
\* StreamService.buffer(index, audio).
InSynthesis ==
  {k \in 1..Len(llmreply) : Requested(k) /\ k \notin Spoken /\ k \notin tts_lost}
on_speech(index, audio) == buffer(index, audio)

\* The synthesis request returns a stream (lines 160-179): 'speech' is
\* emitted with the index of the reply and the audio.
speech(k) ==
  /\ k \in InSynthesis
  /\ on_speech(llmreply[k].partialResponseIndex, k)
  /\ UNCHANGED tts_lost

\* The request raises, or returns no stream (lines 180-184): logged, and no
\* 'speech' is emitted.
tts_fail(k) ==
  /\ k \in InSynthesis
  /\ tts_lost' = tts_lost \cup {k}
  /\ UNCHANGED <<streamVars, llmVars>>

\* ================================================== TranscriptionService
\* What the gateway recognizes: two utterances, and a blank.
AsrTexts == {<<"h", "i">>, <<"y", "o">>, <<" ">>}

\* __init__ (lines 18-23)
AsrInit ==
  /\ final_result = <<>>
  /\ speech_final = FALSE
  /\ handlers = {}
  /\ emitted = <<>>
  /\ asrLog = <<>>
  /\ finals = <<>>

\* line 104: self.final_result += f" {text}"
Joined(result, text) == result \o <<" ">> \o text

\* An emitted event; heard is the number of non-blank final transcripts
\* received when it was emitted.
Event(name, text, heard) == [event |-> name, text |-> text, heard |-> heard]
Handler(pc) == [id |-> Len(asrLog) + 1, pc |-> pc]

\* handle_transcription(result), up to its first await (lines 99-114).
handle_transcription(text, is_final, is_speech_final) ==
  LET blank == Strip(text) = <<>>
      result == Joined(final_result, text)
      emits == IF is_final /\ ~blank THEN is_speech_final ELSE ~blank
  IN /\ Len(asrLog) < MaxAsrEvents
     /\ asrLog' = Append(asrLog,
          [kind |-> "transcript", text |-> text, is_final |-> is_final,
           speech_final |-> is_speech_final, emits |-> emits])
     /\ IF is_final /\ ~blank
        THEN /\ final_result' = result
             /\ finals' = Append(finals, text)
             /\ speech_final' = is_speech_final
             /\ IF is_speech_final
                THEN /\ emitted' = Append(emitted,
                          Event("transcription", result, Len(finals) + 1))
                     /\ handlers' = handlers \cup {Handler("final")}
                ELSE UNCHANGED <<emitted, handlers>>
        ELSE /\ UNCHANGED <<final_result, finals, speech_final>>
             /\ IF ~blank
                THEN /\ emitted' = Append(emitted, Event("utterance", text, Len(finals)))
                     /\ handlers' = handlers \cup {Handler("utterance")}
                ELSE UNCHANGED <<emitted, handlers>>

\* handle_utterance_end, up to its await (lines 75-83).
handle_utterance_end ==
  /\ Len(asrLog) < MaxAsrEvents
  /\ asrLog' = Append(asrLog,
       [kind |-> "utterance_end", text |-> <<>>, is_final |-> FALSE,
        speech_final |-> FALSE, emits |-> ~speech_final])
  /\ IF ~speech_final
     THEN /\ emitted' = Append(emitted,
               Event("transcription", final_result, Len(finals)))
          /\ handlers' = handlers \cup {Handler("end")}
     ELSE UNCHANGED <<emitted, handlers>>
  /\ UNCHANGED <<final_result, speech_final, finals>>

\* The emit returns into the handler (lines 79-81, 108, 114).
handler_resume(h) ==
  /\ h \in handlers
  /\ handlers' = handlers \ {h}
  /\ final_result' = IF h.pc = "utterance" THEN final_result ELSE <<>>
  /\ speech_final' = IF h.pc = "end" THEN TRUE ELSE speech_final
  /\ UNCHANGED <<emitted, asrLog, finals>>

\* ============================================ the segmenter on its own
\* emit_complete_sentences(text), all of it (lines 160-172).
C10a == <<"H", "e", "l", "l", "o", " ", "w", "o", "r", "l", "d", ".", " ", "H", "o", "w", " ", "a", "r", "e", " ">>
C10b == <<"y", "o", "u", "?", " ", "F", "i", "n", "e", ".">>
SegChunks == {C10a, C10b, <<"a">>, <<"b", ".">>, <<" ">>, <<"!", "?">>}

feed(text) ==
  LET buf == sentence_buffer \o text
      sentences == split_into_sentences(buf)
      complete == Front(sentences)
      out == [i \in 1..Len(complete) |-> Strip(complete[i])]
  IN /\ Len(segLog) < MaxSegOps
     /\ llmreply' = llmreply \o
          [i \in 1..Len(out) |-> Reply(partial_response_index + i - 1, out[i], 0, buf)]
     /\ partial_response_index' = partial_response_index + Len(complete)
     /\ sentence_buffer' = Last(sentences)
     /\ segLog' = Append(segLog, [op |-> "feed", text |-> text, out |-> out,
                                  raw |-> complete, before |-> sentence_buffer,
                                  after |-> Last(sentences)])
     /\ UNCHANGED <<user_context, initial_message, active, requests, call_ended,
                    started, toolLog, failLog, terminated, used, llm_resets,
                    toolTrace>>

\* The flush at the end of a stream (lines 253-259).
flush ==
  LET rest == Strip(sentence_buffer)
  IN /\ Len(segLog) < MaxSegOps
     /\ IF rest # <<>>
        THEN /\ llmreply' = Append(llmreply,
               Reply(partial_response_index, rest, 0, sentence_buffer))
             /\ sentence_buffer' = <<>>
             /\ segLog' = Append(segLog, [op |-> "flush", text |-> <<>>, out |-> <<rest>>,
                                          raw |-> <<>>, before |-> sentence_buffer,
                                          after |-> <<>>])
        ELSE /\ segLog' = Append(segLog, [op |-> "flush", text |-> <<>>, out |-> <<>>,
                                          raw |-> <<>>, before |-> sentence_buffer,
                                          after |-> sentence_buffer])
             /\ UNCHANGED <<llmreply, sentence_buffer>>
     /\ UNCHANGED <<user_context, initial_message, partial_response_index, active,
                    requests, call_ended, started, toolLog, failLog, terminated,
                    used, llm_resets, toolTrace>>

\* ======================================================= specifications
\* The audio of a call made by hand is named by the call's ordinal, so that
\* every payload can be told apart downstream.
NewAudio == Len(callLog) + 1

\* The driver of the sequencer is not part of these sources: the stream
\* identifier is set by the 'start' message, before any audio is buffered.
CanSetSid == callLog = <<>> /\ stream_sid = ""

Init == StreamInit /\ LLMInit /\ tts_lost = {} /\ AsrInit

\* The sequencer driven by one caller at a time: a call is made, or reset()
\* is called, only when no buffer() call is suspended.
SeqBuffer ==
  \E index \in Indices \cup {None} :
    calls = {} /\ buffer(index, NewAudio) /\ UNCHANGED <<llmVars, ttsVars, asrVars>>
SeqReset == calls = {} /\ StreamService_reset /\ UNCHANGED <<llmVars, ttsVars, asrVars>>
SendMark == \E c \in calls : send_mark(c) /\ UNCHANGED <<llmVars, ttsVars, asrVars>>
EmitAudioSent == \E c \in calls : emit_audiosent(c) /\ UNCHANGED <<llmVars, ttsVars, asrVars>>
BufferResume == \E c \in calls : buffer_resume(c) /\ UNCHANGED <<llmVars, ttsVars, asrVars>>

\* The 'start' message of the media stream, which comes before any audio.
SetStreamSid ==
  \E sid \in StreamSids : CanSetSid /\ set_stream_sid(sid) /\ UNCHANGED <<llmVars, ttsVars, asrVars>>

NextStream ==
  \/ SeqBuffer \/ SeqReset \/ SendMark \/ EmitAudioSent \/ BufferResume
  \/ SetStreamSid
SpecStream == Init /\ [][NextStream]_vars

\* The sequencer called from concurrent handlers: buffer() and reset() are
\* called at any time, also while other buffer() calls are suspended.
Buffer ==
  \E index \in Indices \cup {None} :
    /\ Cardinality(calls) < MaxInFlight
    /\ Len(callLog) + resets < MaxConcOps
    /\ buffer(index, NewAudio)
    /\ UNCHANGED <<llmVars, ttsVars, asrVars>>
Reset ==
  /\ Len(callLog) + resets < MaxConcOps
  /\ StreamService_reset
  /\ UNCHANGED <<llmVars, ttsVars, asrVars>>
NextConc ==
  \/ Buffer \/ Reset \/ SendMark \/ EmitAudioSent \/ BufferResume
  \/ SetStreamSid
SpecConc == Init /\ [][NextConc]_vars

\* The engine: transcripts, the model's stream, the tools, and the two
\* synchronous methods that other handlers may call at any await.
StartTurn == \E text \in Transcripts : start_turn(text) /\ UNCHANGED <<streamVars, ttsVars, asrVars>>
OpenStream == \E f \in active : open_stream(f) /\ UNCHANGED <<streamVars, ttsVars, asrVars>>
TextChunk ==
  \E f \in active, content \in Deltas : text_chunk(f, content) /\ UNCHANGED <<streamVars, ttsVars, asrVars>>
ToolNameChunk ==
  \E f \in active, name \in StreamNames, args \in ArgFragments :
    tool_name_chunk(f, name, args) /\ UNCHANGED <<streamVars, ttsVars, asrVars>>
ToolArgsChunk ==
  \E f \in active, args \in ArgFragments :
    tool_args_chunk(f, args) /\ UNCHANGED <<streamVars, ttsVars, asrVars>>
FinishChunk == \E f \in active : finish_chunk(f) /\ UNCHANGED <<streamVars, ttsVars, asrVars>>
EmitResume == \E f \in active : emit_resume(f) /\ UNCHANGED <<streamVars, ttsVars, asrVars>>
ToolSayResume == \E f \in active : tool_say_resume(f) /\ UNCHANGED <<streamVars, ttsVars, asrVars>>
ToolReturn ==
  \E f \in active : \E response \in ToolResults(f.function_name) :
    tool_return(f, response) /\ UNCHANGED <<streamVars, ttsVars, asrVars>>
ToolRaise == \E f \in active : tool_raise(f) /\ UNCHANGED <<streamVars, ttsVars, asrVars>>
StreamEnd == \E f \in active : stream_end(f) /\ UNCHANGED <<streamVars, ttsVars, asrVars>>
FlushResume == \E f \in active : flush_resume(f) /\ UNCHANGED <<streamVars, ttsVars, asrVars>>
StreamFail == \E f \in active : stream_fail(f) /\ UNCHANGED <<streamVars, ttsVars, asrVars>>
SetCallContext ==
  \E greeting \in Greetings : set_call_context(greeting) /\ UNCHANGED <<streamVars, ttsVars, asrVars>>
LLMReset == LLM_reset /\ UNCHANGED <<streamVars, ttsVars, asrVars>>

NextEngine ==
  \/ StartTurn \/ OpenStream \/ TextChunk \/ ToolNameChunk \/ ToolArgsChunk
  \/ FinishChunk
  \/ EmitResume \/ ToolSayResume \/ ToolReturn \/ ToolRaise \/ StreamEnd
  \/ FlushResume \/ StreamFail \/ SetCallContext \/ LLMReset
SpecEngine == Init /\ [][NextEngine]_vars

\* The pipeline of one call: the engine, the synthesis of its replies and
\* the sequencer. A barge-in resets the engine and the sequencer together.
BargeIn == LLM_reset /\ StreamService_reset /\ UNCHANGED <<ttsVars, asrVars>>
Speech == \E k \in 1..Len(llmreply) : speech(k) /\ UNCHANGED <<llmVars, asrVars>>
TtsFail == \E k \in 1..Len(llmreply) : tts_fail(k) /\ UNCHANGED asrVars
\* The events from outside are counted against one budget.
PipeBudget == used + Cardinality(tts_lost) < MaxPipeEvents
PipeStartTurn == PipeBudget /\ StartTurn
PipeTextChunk == PipeBudget /\ TextChunk
PipeToolNameChunk == PipeBudget /\ ToolNameChunk
PipeToolArgsChunk == PipeBudget /\ ToolArgsChunk
PipeFinishChunk == PipeBudget /\ FinishChunk
PipeToolRaise == PipeBudget /\ ToolRaise
PipeStreamFail == PipeBudget /\ StreamFail
PipeSetCallContext == PipeBudget /\ SetCallContext
PipeBargeIn == PipeBudget /\ BargeIn
PipeTtsFail == PipeBudget /\ TtsFail
NextPipe ==
  \/ PipeStartTurn \/ PipeTextChunk \/ PipeToolNameChunk \/ PipeToolArgsChunk
  \/ PipeFinishChunk \/ PipeToolRaise \/ PipeStreamFail \/ PipeSetCallContext
  \/ PipeBargeIn \/ PipeTtsFail
  \/ OpenStream \/ EmitResume \/ ToolSayResume \/ ToolReturn \/ StreamEnd
  \/ FlushResume \/ Speech \/ SendMark \/ EmitAudioSent \/ BufferResume
SpecPipe == Init /\ [][NextPipe]_vars

\* The transcription service: the gateway's events are handled as they come,
\* also while a handler is suspended awaiting the handlers of its event.
Transcript ==
  \E text \in AsrTexts, is_final \in BOOLEAN, is_speech_final \in BOOLEAN :
    /\ handle_transcription(text, is_final, is_speech_final)
    /\ UNCHANGED <<streamVars, llmVars, ttsVars>>
UtteranceEnd == handle_utterance_end /\ UNCHANGED <<streamVars, llmVars, ttsVars>>
HandlerResume ==
  \E h \in handlers : handler_resume(h) /\ UNCHANGED <<streamVars, llmVars, ttsVars>>
NextAsr == Transcript \/ UtteranceEnd \/ HandlerResume
SpecAsr == Init /\ [][NextAsr]_vars

\* The segmenter fed and flushed by hand.
Feed == \E text \in SegChunks : feed(text) /\ UNCHANGED <<streamVars, ttsVars, asrVars>>
Flush == flush /\ UNCHANGED <<streamVars, ttsVars, asrVars>>
NextSeg == Feed \/ Flush
SpecSeg == Init /\ [][NextSeg]_vars


\* ------------------------------------------------ claims on the sequencer
IndexedCalls == {k \in 1..Len(callLog) : callLog[k].index # None}
NullCalls == {k \in 1..Len(callLog) : callLog[k].index = None}
Supplied == {callLog[k].index : k \in IndexedCalls}
NoRepeat ==
  \A j, k \in IndexedCalls : j # k => callLog[j].index # callLog[k].index
AudioOf(i) == callLog[CHOOSE k \in IndexedCalls : callLog[k].index = i].audio
IsIndexed(d) == d.index # None
IndexedDelivered == SelectSeq(delivered, IsIndexed)
WasDelivered(audio) == \E j \in 1..Len(delivered) : delivered[j].audio = audio
TimesDelivered(audio) ==
  Cardinality({j \in 1..Len(delivered) : delivered[j].audio = audio})
Stale(k) == callLog[k].index # None /\ callLog[k].index < callLog[k].expected

\* C1: with no reset, once every index 0..N-1 has been supplied exactly once
\* (in any order, null-index calls interleaved) and all calls have returned,
\* the indexed audio delivered is audio[0], ..., audio[N-1] in that order,
\* each once, and every null-index audio was delivered once.
C1_Ordering ==
  (/\ resets = 0 /\ calls = {} /\ NoRepeat
   /\ Supplied = 0..(Cardinality(Supplied) - 1))
  => /\ Len(IndexedDelivered) = Cardinality(Supplied)
     /\ \A j \in 1..Len(IndexedDelivered) :
          /\ IndexedDelivered[j].index = j - 1
          /\ IndexedDelivered[j].audio = AudioOf(j - 1)
     /\ \A k \in NullCalls : TimesDelivered(callLog[k].audio) = 1

C1_Witness ==
  /\ resets = 0 /\ calls = {} /\ NoRepeat
  /\ Supplied = 0..2
  /\ Len(callLog) = 4 /\ callLog[1].index = 2 /\ callLog[3].index = None
  /\ Len(delivered) = 4

\* C5: when reset() was the last operation, expected_audio_index is 0 and
\* the pending buffer is empty, whatever calls came before; and a
\* buffer(0, X) that directly follows a reset() sends X within that call.
C5_Reset ==
  /\ lastOp = "reset" => expected_audio_index = 0 /\ audio_buffer = EmptyMap
  /\ \A k \in 1..Len(callLog) :
       (callLog[k].prev = "reset" /\ callLog[k].index = 0)
       => \E j \in 1..Len(delivered) :
            /\ delivered[j].audio = callLog[k].audio
            /\ delivered[j].by = callLog[k].audio
            /\ delivered[j].session = callLog[k].session

C5_Witness ==
  \E k \in 3..Len(callLog) :
    /\ callLog[k].prev = "reset" /\ callLog[k].index = 0
    /\ callLog[k - 1].index \notin {None, 0}
    /\ WasDelivered(callLog[k].audio)
    /\ WasDelivered(callLog[1].audio)

DeliveredBy(audio) ==
  LET ByCall(d) == d.by = audio IN SelectSeq(delivered, ByCall)
IsHead(k) == callLog[k].index # None /\ callLog[k].index = callLog[k].expected

\* C24: once it has returned, a call whose index was the expected one has
\* delivered its own audio and then, in index order, the audio of every
\* index that followed it without a gap in the pending buffer at the time
\* of the call, and no other; and whenever no call is running,
\* expected_audio_index is not a key of the pending buffer.
C24_Drain ==
  calls = {} =>
    /\ expected_audio_index \notin DOMAIN audio_buffer
    /\ \A k \in 1..Len(callLog) :
         IsHead(k) =>
           LET ds == DeliveredBy(callLog[k].audio)
               first == callLog[k].index
           IN /\ Len(ds) >= 1
              /\ ds[1].audio = callLog[k].audio
              /\ \A j \in 1..Len(ds) : ds[j].index = first + j - 1
              /\ \A j \in 2..Len(ds) :
                   /\ (first + j - 1) \in DOMAIN callLog[k].pending
                   /\ ds[j].audio = callLog[k].pending[first + j - 1]
              /\ (first + Len(ds)) \notin DOMAIN callLog[k].pending

C24_Witness ==
  /\ calls = {} /\ expected_audio_index = 3
  /\ \E k \in 1..Len(callLog) :
       /\ IsHead(k) /\ callLog[k].index = 0
       /\ DOMAIN callLog[k].pending = {1, 2}
       /\ Len(DeliveredBy(callLog[k].audio)) = 3
       /\ audio_buffer = EmptyMap

\* the indexed deliveries of the current session
SessionDelivered ==
  {j \in 1..Len(delivered) :
     delivered[j].index # None /\ delivered[j].session = resets}
\* the calls that have sent a fragment whose index is not yet passed
Sending == {c \in calls : c.branch # "null"}
Removed == DOMAIN audio_buffer \ DOMAIN audio_buffer'

\* C25: within a session expected_audio_index never decreases and moves by
\* one at a time; it is the number of indexed fragments delivered in the
\* session, less the one whose delivery is still under way; and a key
\* leaves the pending buffer only as the expected one, its audio having
\* been delivered once, and never a second time in the session.
C25_Counted ==
  expected_audio_index + Cardinality(Sending) = Cardinality(SessionDelivered)
C25_Step ==
  resets' = resets =>
    /\ expected_audio_index' \in {expected_audio_index, expected_audio_index + 1}
    /\ \A i \in Removed :
         /\ i = expected_audio_index
         /\ Cardinality({j \in SessionDelivered :
                           /\ delivered[j].index = i
                           /\ delivered[j].audio = audio_buffer[i]}) = 1
         /\ TimesDelivered(audio_buffer[i]) = 1
    /\ \A i \in DOMAIN audio_buffer' \ DOMAIN audio_buffer :
         i # expected_audio_index /\ expected_audio_index' = expected_audio_index
Moved == {c \in calls : c \notin calls'}
NullStarted == Len(callLog') > Len(callLog) /\ Last(callLog').index = None
Finished(k) == \A c \in calls : c.id # callLog[k].audio

\* C13: a buffer(None, audio) call sends its audio itself, before its first
\* await, and no step of such a call changes expected_audio_index or the
\* pending buffer, whatever the state of the sequencer.
C13_NullStep ==
  (NullStarted \/ (Moved # {} /\ \A c \in Moved : c.branch = "null"))
  => /\ expected_audio_index' = expected_audio_index
     /\ audio_buffer' = audio_buffer
     /\ NullStarted =>
          /\ Len(ws') = Len(ws) + 1
          /\ Last(ws').event = "media"
          /\ Last(ws').payload = Last(callLog').audio
          /\ Len(delivered') = Len(delivered) + 1
          /\ Last(delivered').audio = Last(callLog').audio
          /\ Last(delivered').by = Last(callLog').audio
C13_NullIndex == [][C13_NullStep]_vars

C13_Witness ==
  \E k \in 1..Len(callLog) :
    /\ callLog[k].index = None /\ Finished(k)
    /\ callLog[k].expected > 0
    /\ audio_buffer # EmptyMap
    /\ TimesDelivered(callLog[k].audio) = 1

\* C14: every delivery has exactly one media frame, tagged with the stream
\* identifier; once its label is drawn, exactly one mark frame with that
\* label, sent after the media frame and tagged alike, the label being that
\* of no other delivery; and once 'audiosent' is emitted, exactly one such
\* event, with that label, after the mark frame.
Frames(event) == {p \in 1..Len(ws) : ws[p].event = event}
MarksOf(label) == {p \in Frames("mark") : ws[p].name = label}
AcksOf(label) == {a \in 1..Len(audiosent) : audiosent[a] = label}
InFlight(j) == {c \in calls : c.d = j}
C14_Delivery ==
  /\ Cardinality(Frames("media")) = Len(delivered)
  /\ Cardinality(Frames("mark")) = uuid
  /\ Len(audiosent) <= uuid
  /\ \A j \in 1..Len(delivered) :
       LET d == delivered[j]
           sent == \A c \in InFlight(j) : c.pc # "media"
           acked == \A c \in InFlight(j) : c.pc = "emit"
       IN /\ d.frame \in Frames("media")
          /\ ws[d.frame].payload = d.audio
          /\ ws[d.frame].streamSid = stream_sid
          /\ \A i \in 1..Len(delivered) : i # j => delivered[i].frame # d.frame
          /\ IF sent
             THEN /\ d.label # None
                  /\ Cardinality(MarksOf(d.label)) = 1
                  /\ \A p \in MarksOf(d.label) :
                       p > d.frame /\ ws[p].streamSid = ws[d.frame].streamSid
                  /\ \A i \in 1..Len(delivered) :
                       i # j => delivered[i].label # d.label
             ELSE d.label = None
          /\ Cardinality(AcksOf(d.label)) = IF acked THEN 1 ELSE 0

C14_Witness ==
  /\ calls = {} /\ Len(delivered) = 3 /\ Len(audiosent) = 3
  /\ stream_sid = "MZ1"
  /\ \E k \in 1..Len(callLog) : callLog[k].inflight > 0
  /\ \E j \in 1..Len(delivered) : delivered[j].by # delivered[j].audio
  /\ ws[2].event = "media"

\* C26 (as claimed): the mark frame of a delivery is the frame right after
\* its media frame, and until it is sent the media frame is the last frame
\* on the channel, also when calls overlap.
C26_Adjacent ==
  \A j \in 1..Len(delivered) :
    LET d == delivered[j]
    IN IF d.label = None
       THEN Len(ws) = d.frame
       ELSE /\ Len(ws) > d.frame
            /\ ws[d.frame + 1].event = "mark"
            /\ ws[d.frame + 1].name = d.label

\* C16 (as claimed): once the calls that were suspended when reset() ran have
\* finished, and no call was made since, expected_audio_index is 0 and the
\* pending buffer is empty; and a buffer(0, X) that follows the reset sends
\* X itself.
C16_ResetHolds ==
  /\ (lastOp = "reset" /\ calls = {})
       => expected_audio_index = 0 /\ audio_buffer = EmptyMap
  /\ \A k \in 1..Len(callLog) :
       (callLog[k].prev = "reset" /\ callLog[k].index = 0)
       => \E j \in 1..Len(delivered) :
            delivered[j].audio = callLog[k].audio /\ delivered[j].by = callLog[k].audio

\* C17: with no reset and the indices 0..N-1 supplied once each by calls
\* that may overlap, the indexed audio sent so far is audio[0], audio[1],
\* ... in that order, each once; and once all calls have returned, all N
\* were sent, none is left in the pending buffer, and no call has raised.
C17_Overlap ==
  (resets = 0 /\ NoRepeat /\ Supplied = 0..(Cardinality(Supplied) - 1))
  => /\ \A j \in 1..Len(IndexedDelivered) :
          /\ IndexedDelivered[j].index = j - 1
          /\ IndexedDelivered[j].audio = AudioOf(j - 1)
          /\ \A i \in 1..(j - 1) : IndexedDelivered[i].frame < IndexedDelivered[j].frame
     /\ calls = {} =>
          /\ Len(IndexedDelivered) = Cardinality(Supplied)
          /\ audio_buffer = EmptyMap
          /\ bufferRaised = <<>>

C17_Witness ==
  /\ resets = 0 /\ calls = {} /\ NoRepeat /\ NullCalls = {}
  /\ Supplied = 0..2
  /\ callLog[1].index = 0 /\ callLog[2].index = 2
  /\ callLog[2].inflight = 1 /\ callLog[3].inflight = 1
  /\ Len(delivered) = 3
  /\ \A j \in 1..3 : delivered[j].by = callLog[1].audio

\* --------------------------------------------------- claims on the engine
Caused(t) == {k \in 1..Len(started) : started[k].cause = t}
NonNull(k) == llmreply[k].partialResponseIndex # None
ActiveIds == {f.id : f \in active}

\* C2: for every tool action that has returned: if the tool is end_call, no
\* completion() was started by it; otherwise exactly one was, called by the
\* invocation that ran the tool, with the returned text as its text, role
\* "function" and the tool's name as its name.
C2_ToolRecursion ==
  \A t \in 1..Len(toolLog) :
    IF toolLog[t].name = "end_call"
    THEN Caused(t) = {}
    ELSE /\ Cardinality(Caused(t)) = 1
         /\ \A k \in Caused(t) :
              /\ started[k].text = toolLog[t].response
              /\ started[k].role = "function"
              /\ started[k].name = toolLog[t].name
              /\ started[k].parent = toolLog[t].by

C2_Witness ==
  /\ \E t \in 1..Len(toolLog) : toolLog[t].name = "end_call"
  /\ \E t \in 1..Len(toolLog) :
       toolLog[t].name = "transfer_call" /\ Caused(t) # {}

\* C3 (as claimed): between two reset() calls of the engine, the non-null
\* indices of the 'llmreply' events are strictly increasing in emission
\* order.
C3_StrictlyIncreasing ==
  \A j, k \in 1..Len(llmreply) :
    (j < k /\ NonNull(j) /\ NonNull(k) /\ llmreply[j].session = llmreply[k].session)
    => llmreply[j].partialResponseIndex < llmreply[k].partialResponseIndex

C6_Terminated ==
  terminated # <<>> =>
    /\ Len(llmreply) = terminated[1].replies
    /\ Len(started) = terminated[1].started

\* C7: a step in which the request or the stream of an invocation fails
\* leaves the history and the number of model requests as they were, ends
\* that invocation alone, and leaves the invocation awaiting it, if any,
\* waiting for the next chunk of its own stream with its state intact.
C7_FailureStep ==
  LET e == Last(failLog')
  IN (Len(failLog') > Len(failLog) /\ e.kind = "stream")
     => /\ user_context' = user_context
        /\ requests' = requests
        /\ e.id \in ActiveIds /\ e.id \notin ActiveIds'
        /\ ActiveIds' = ActiveIds \ {e.id}
        /\ \A g \in active :
             g.id = e.parent =>
               [g EXCEPT !.pc = "stream"] \in active'
C7_StreamFailure == [][C7_FailureStep]_vars

C7_Witness ==
  /\ active = {}
  /\ \E k \in 1..Len(failLog) :
       /\ failLog[k].kind = "stream" /\ failLog[k].parent # 0
       /\ \E j \in 1..Len(user_context) : user_context[j].role = "function"
       /\ Last(user_context).role = "assistant"
       /\ Len(user_context) = 6

\* C9: the history always starts with (user, "Hello") and (assistant, the
\* initial greeting of the call).
C9_FirstTwo ==
  /\ Len(user_context) >= 2
  /\ user_context[1] = Entry("user", Hello, NoName)
  /\ user_context[2] = Entry("assistant", initial_message, NoName)

C9_Witness ==
  /\ initial_message = <<"G">>
  /\ Len(user_context) >= 5
  /\ failLog # <<>>
  /\ toolLog # <<>>
  /\ active = {}

\* ------------------------------------------- claims on the tool-call loop
Trace(ev) == {t \in 1..Len(toolTrace) : toolTrace[t].ev = ev}
CallsBy(id) == {t \in Trace("call") : toolTrace[t].by = id}
NullReplies(id) ==
  {k \in 1..Len(llmreply) :
     llmreply[k].partialResponseIndex = None /\ llmreply[k].by = id}
FailuresOf(id) == {k \in 1..Len(failLog) : failLog[k].id = id}
PcOf(id) == {f.pc : f \in {g \in active : g.id = id}}

\* C11: a signalled call of a registered tool whose argument payload is not
\* JSON goes on as one with a JSON payload does: the announcement is
\* emitted, then the tool action is called, with the empty argument set,
\* and nothing has failed in the invocation up to that call; a payload that
\* is JSON is passed as parsed.
C11_MalformedArgs ==
  \A s \in Trace("signal") :
    LET sig == toolTrace[s]
        called == CallsBy(sig.by)
    IN sig.name \in ToolNames
       => /\ Cardinality(NullReplies(sig.by)) = 1
          /\ IF called = {}
             THEN PcOf(sig.by) = {"tool_say"} /\ FailuresOf(sig.by) = {}
             ELSE \A t \in called :
                    /\ t > s
                    /\ toolTrace[t].name = sig.name
                    /\ toolTrace[t].args =
                         (IF IsJsonObject(sig.raw) THEN json_loads(sig.raw)
                          ELSE EmptyArgs)
                    /\ \A k \in FailuresOf(sig.by) : failLog[k].kind # "KeyError"

C11_Witness ==
  /\ \E t \in Trace("call") :
       /\ toolTrace[t].raw = <<"{">> /\ toolTrace[t].args = EmptyArgs
       /\ toolTrace[t].name = "transfer_call"
       /\ \E k \in 1..Len(started) : started[k].parent = toolTrace[t].by
  /\ \E t \in Trace("call") : toolTrace[t].args = {<<"a", "1">>}

\* C12 (as claimed): when the stream signals a name that is not registered,
\* the invocation fails and the failure is raised out of it, so that the
\* completion() awaiting it does not go on either; nothing is announced,
\* no tool action is called and no completion() is started.
C12_UnknownStep ==
  LET e == Last(failLog')
  IN (Len(failLog') > Len(failLog) /\ e.kind = "KeyError")
     => /\ llmreply' = llmreply
        /\ requests' = requests /\ started' = started /\ toolLog' = toolLog
        /\ e.id \in ActiveIds /\ e.id \notin ActiveIds'
        /\ Trace("call")' = Trace("call")
C12_Absorbed ==
  [][C12_UnknownStep /\
     \A k \in 1..Len(failLog') :
       (k > Len(failLog) /\ failLog'[k].kind = "KeyError")
       => /\ ActiveIds' = ActiveIds \ {failLog'[k].id}
          /\ \A g \in active :
               g.id = failLog'[k].parent => [g EXCEPT !.pc = "stream"] \in active']_vars
C12_NoTool ==
  \A s \in Trace("signal") :
    LET sig == toolTrace[s]
    IN sig.name \notin ToolNames
       => /\ \E k \in FailuresOf(sig.by) : failLog[k].kind = "KeyError"
          /\ sig.by \notin ActiveIds
          /\ NullReplies(sig.by) = {}
          /\ CallsBy(sig.by) = {}
          /\ \A k \in 1..Len(started) : started[k].parent # sig.by
C19_EveryStep ==
  LET t == Last(toolLog')
  IN Len(toolLog') > Len(toolLog)
     => /\ Len(user_context') = Len(user_context) + 1
        /\ Last(user_context').role = "function"
        /\ Last(user_context').content = t.response
        /\ Last(user_context).role = "assistant"
        /\ Last(user_context).content = Say(t.name)
C19_EveryTool == [][C19_EveryStep]_vars

\* C19 (amended): when the action of a tool other than end_call returns its
\* text, that text is appended to the history with role 'function' and the
\* tool's name, right after the announcement; when end_call returns,
\* nothing is appended.
C19_Step ==
  LET t == Last(toolLog')
  IN Len(toolLog') > Len(toolLog)
     => IF t.name = "end_call"
        THEN user_context' = user_context
        ELSE /\ Len(user_context') = Len(user_context) + 1
             /\ Last(user_context').role = "function"
             /\ Last(user_context').content = t.response
             /\ Last(user_context').name = t.name
             /\ Last(user_context).role = "assistant"
             /\ Last(user_context).content = Say(t.name)
C19_FunctionEntry == [][C19_Step]_vars

C19_Witness ==
  /\ \E t \in 1..Len(toolLog) : toolLog[t].name = "end_call"
  /\ \E t \in 1..Len(toolLog) : toolLog[t].name = "transfer_call"
  /\ Cardinality({j \in 1..Len(user_context) : user_context[j].role = "function"}) = 1

\* C20: every signalled call of a registered tool has exactly one reply with
\* no index, carrying the tool's announcement, and that reply was emitted
\* before the tool action was called; no other reply is without an index.
C20_Announcement ==
  /\ \A s \in Trace("signal") :
       LET sig == toolTrace[s]
       IN sig.name \in ToolNames
          => /\ Cardinality(NullReplies(sig.by)) = 1
             /\ \A k \in NullReplies(sig.by) :
                  /\ llmreply[k].partialResponse = Say(sig.name)
                  /\ k = sig.replies + 1
                  /\ \A t \in CallsBy(sig.by) : k <= toolTrace[t].replies
             /\ Cardinality(CallsBy(sig.by)) <= 1
  /\ \A k \in 1..Len(llmreply) :
       llmreply[k].partialResponseIndex = None
       => \E s \in Trace("signal") :
            toolTrace[s].by = llmreply[k].by /\ toolTrace[s].name \in ToolNames

C20_Witness ==
  /\ Cardinality(Trace("call")) = 2
  /\ Len(toolLog) = 2
  /\ \E k \in 1..Len(llmreply) :
       llmreply[k].partialResponseIndex # None /\ k < Len(llmreply)

\* ------------------------------------------- claims on text and history
RECURSIVE Flatten(_)
Flatten(texts) == IF texts = <<>> THEN <<>> ELSE Head(texts) \o Flatten(Tail(texts))
IsSubstring(t, text) ==
  \E i \in 0..(Len(text) - Len(t)) : SubSeq(text, i + 1, i + Len(t)) = t
\* the invocation returns in this step, and not from its except clause
ReturnsNormally(f) ==
  f \in active /\ f.id \notin ActiveIds' /\ failLog' = failLog

\* C21 (as claimed): the text of every indexed reply is part of the text
\* that the stream of the emitting invocation itself had delivered by then.
C21_OwnText ==
  \A k \in 1..Len(llmreply) :
    NonNull(k) => IsSubstring(llmreply[k].partialResponse, llmreply[k].src)

\* C22: a step in which an invocation returns after the end of its stream
\* appends one entry to the history, an assistant entry whose content is
\* the text deltas of its stream in arrival order; and any other step that
\* appends an assistant entry appends the announcement of a tool.
C22_Step ==
  /\ \A f \in active :
       ReturnsNormally(f)
       => /\ Len(user_context') = Len(user_context) + 1
          /\ SubSeq(user_context', 1, Len(user_context)) = user_context
          /\ Last(user_context').role = "assistant"
          /\ Last(user_context').content = f.received
  /\ (/\ Len(user_context') = Len(user_context) + 1
      /\ Last(user_context').role = "assistant"
      /\ ActiveIds \subseteq ActiveIds')
     => \E f \in active :
          /\ f.pc = "tool_say"
          /\ Last(user_context').content = Say(f.function_name)
C22_FullResponse == [][C22_Step]_vars

C22_Witness ==
  /\ active = {}
  /\ Len(started) = 2 /\ started[2].parent = 1
  /\ failLog = <<>>
  /\ Last(user_context) = Entry("assistant", <<"a", "b", ".">>, NoName)
  /\ user_context[Len(user_context) - 1].role = "assistant"
  /\ user_context[Len(user_context) - 2].role = "function"

\* C23 (as claimed): while an invocation whose stream delivered text awaits
\* the recursive call it made, the history holds an assistant entry with
\* that text, after the entry the invocation started with and before the
\* entry of the tool's result.
C23_GenerationOrder ==
  \A f, g \in active :
    (g.parent = f.id /\ f.received # <<>>)
    => \E j \in 1..Len(user_context) :
         /\ started[f.id].at < j /\ j < started[g.id].at
         /\ user_context[j].role = "assistant"
         /\ user_context[j].content = f.received

\* C27 (as claimed): a step in which an invocation returns after the end of
\* its stream leaves the sentence buffer empty.
C27_FlushStep ==
  \A f \in active : ReturnsNormally(f) => sentence_buffer' = <<>>
C27_FlushClears == [][C27_FlushStep]_vars

\* ------------------------------------------- claims on the transcription
IsTranscription(e) == e.event = "transcription"
Transcriptions == SelectSeq(emitted, IsTranscription)
TextsOf(events) == Flatten([k \in 1..Len(events) |-> events[k].text])
Heard(n) == Flatten([k \in 1..n |-> Joined(<<>>, finals[k])])
SpeechFinal(r) ==
  r.kind = "transcript" /\ r.is_final /\ r.speech_final /\ Strip(r.text) # <<>>

\* C29 (as claimed): the texts of the 'transcription' events, in emission
\* order, are together the non-blank final transcripts received up to the
\* last of these events, in arrival order, each once; and an UtteranceEnd
\* that comes right after a speech-final transcript emits nothing.
C29_NoLoss ==
  /\ Transcriptions # <<>> =>
       TextsOf(Transcriptions) = Heard(Last(Transcriptions).heard)
  /\ \A k \in 2..Len(asrLog) :
       (asrLog[k].kind = "utterance_end" /\ SpeechFinal(asrLog[k - 1]))
       => ~asrLog[k].emits

\* ------------------------------------------------- claims on the pipeline
IndexedReplies == {k \in 1..Len(llmreply) : NonNull(k)}
DeliveredAudio == [j \in 1..Len(IndexedDelivered) |-> IndexedDelivered[j].audio]

\* C15 (as claimed): the audio synthesized from a reply is delivered only in
\* the session the reply was emitted in, never after a barge-in that
\* followed the reply; and an indexed reply is emitted only in the session
\* its completion() was started in.
C15_BargeIn ==
  /\ \A j \in 1..Len(delivered) :
       delivered[j].session = llmreply[delivered[j].audio].session
  /\ \A k \in IndexedReplies :
       llmreply[k].session = started[llmreply[k].by].session

\* C18 (as claimed): with no reset and no failed synthesis, once the engine
\* is idle, every reply is synthesized and every buffer() call has
\* returned, the indexed replies have all been delivered, once each, in the
\* order they were emitted in.
C18_AllDelivered ==
  (/\ resets = 0 /\ llm_resets = 0 /\ tts_lost = {}
   /\ active = {} /\ calls = {} /\ InSynthesis = {})
  => /\ Len(DeliveredAudio) = Cardinality(IndexedReplies)
     /\ \A j \in 1..Len(DeliveredAudio) :
          /\ DeliveredAudio[j] \in IndexedReplies
          /\ \A i \in 1..(j - 1) : DeliveredAudio[i] < DeliveredAudio[j]

\* ------------------------------------------------ claims on the segmenter
HelloWorld == <<"H", "e", "l", "l", "o", " ", "w", "o", "r", "l", "d", ".">>
HowAreYou == <<"H", "o", "w", " ", "a", "r", "e", " ", "y", "o", "u", "?">>
Fine == <<"F", "i", "n", "e", ".">>
C10Fed ==
  /\ Len(segLog) >= 2
  /\ segLog[1].op = "feed" /\ segLog[1].text = C10a
  /\ segLog[2].op = "feed" /\ segLog[2].text = C10b
C10Flushed == C10Fed /\ Len(segLog) >= 3 /\ segLog[3].op = "flush"

IsSentence(t) ==
  /\ t # <<>> /\ Last(t) \in Terminators
  /\ \A i \in 1..(Len(t) - 1) : t[i] \notin Terminators
NoTerminator(t) == \A i \in 1..Len(t) : t[i] \notin Terminators
Feeds == {k \in 1..Len(segLog) : segLog[k].op = "feed"}
Raws == Flatten(Flatten([k \in 1..Len(segLog) |-> segLog[k].raw]))
Fed == Flatten([k \in 1..Len(segLog) |-> segLog[k].text])

\* C28: every sentence a feed emits, before trimming, ends with a
\* terminator and holds no other; what the feed retains holds none; the
\* sentences in order and then the retained text are the text retained
\* before the feed and then the chunk; so that over feeds that began with
\* an empty buffer, the sentences and then the retained text are the chunks.
C28_Split ==
  /\ \A k \in Feeds :
       LET e == segLog[k]
       IN /\ \A i \in 1..Len(e.raw) : IsSentence(e.raw[i])
          /\ NoTerminator(e.after)
          /\ Flatten(e.raw) \o e.after = e.before \o e.text
          /\ e.before = IF k = 1 THEN <<>> ELSE segLog[k - 1].after
          /\ Len(e.out) = Len(e.raw)
  /\ segLog # <<>> => sentence_buffer = Last(segLog).after
  /\ Feeds = 1..Len(segLog) => Raws \o sentence_buffer = Fed

C28_Witness ==
  /\ Feeds = 1..3
  /\ segLog[2].before # <<>> /\ Len(segLog[2].raw) = 2
  /\ segLog[3].raw # <<>> /\ segLog[3].after # <<>>

\* C10 (as claimed): fed "Hello world. How are " and then "you? Fine.", the
\* feeds emit "Hello world." and "How are you?", and the flush that follows
\* emits "Fine.".
C10_AsClaimed ==
  /\ C10Fed => segLog[1].out \o segLog[2].out = <<HelloWorld, HowAreYou>>
  /\ C10Flushed => segLog[3].out = <<Fine>>

\* C10 (amended): the feeds emit "Hello world.", then "How are you?" and
\* "Fine."; nothing is left, and the flush that follows emits nothing.
C10_Segmentation ==
  /\ C10Fed => /\ segLog[1].out = <<HelloWorld>>
               /\ segLog[2].out = <<HowAreYou, Fine>>
               /\ Len(segLog) = 2 => sentence_buffer = <<>>
  /\ C10Flushed => segLog[3].out = <<>>

C10_Witness ==
  /\ C10Flushed
  /\ Len(llmreply) = 3
  /\ llmreply[3].partialResponse = Fine
  /\ llmreply[3].partialResponseIndex = 2

====
